---- MODULE Spec2Model ----
(***************************************************************************)
(* Model of the stock-market service of src/app.py: the in-memory stock    *)
(* registry, the per-stock trade list, the four calculators and the five   *)
(* Flask handlers.                                                         *)
(*                                                                         *)
(* Python floats are modelled as extended rationals: a finite value is a   *)
(* reduced fraction n/d, and inf, -inf and nan are the IEEE-754 specials   *)
(* with their arithmetic (0 * inf = nan, nan propagates).  Rounding of     *)
(* finite values is not modelled.                                          *)
(***************************************************************************)
EXTENDS Integers, Sequences, FiniteSets, TLC

VARIABLES ledger, now, resp, thr

vars == <<ledger, now, resp, thr>>

(***************************************************************************)
(* Bounds of the model.                                                    *)
(***************************************************************************)
MaxTrades == 2
MaxTicks == 1
NumThreads == 3

(***************************************************************************)
(* Python numbers.                                                         *)
(***************************************************************************)
Abs(x) == IF x < 0 THEN -x ELSE x

RECURSIVE Gcd(_, _)
Gcd(a, b) == IF b = 0 THEN a ELSE Gcd(b, a % b)

Fin(n, d) ==
    LET s == IF d < 0 THEN -1 ELSE 1
        g == Gcd(Abs(n), Abs(d))
    IN  [k |-> "fin", n |-> (s * n) \div g, d |-> (s * d) \div g]

Int2F(i) == [k |-> "fin", n |-> i, d |-> 1]
PosInf == [k |-> "inf", n |-> 1, d |-> 0]
NegInf == [k |-> "inf", n |-> -1, d |-> 0]
NaN == [k |-> "nan", n |-> 0, d |-> 0]
None == [k |-> "None", n |-> 0, d |-> 0]
Complex == [k |-> "complex", n |-> 0, d |-> 0]

IsFin(x) == x.k = "fin"
IsNum(x) == x.k \in {"fin", "inf", "nan"}
Sign(x) == IF x.n > 0 THEN 1 ELSE IF x.n < 0 THEN -1 ELSE 0

\* x == 0, x < 0, x > 0 on floats: every comparison with nan is False.
FIsZero(x) == IsFin(x) /\ x.n = 0
FNeg(x) == x.k \in {"fin", "inf"} /\ x.n < 0
FPos(x) == x.k \in {"fin", "inf"} /\ x.n > 0

FMul(x, y) ==
    IF x.k = "nan" \/ y.k = "nan" THEN NaN
    ELSE IF IsFin(x) /\ IsFin(y) THEN Fin(x.n * y.n, x.d * y.d)
    ELSE IF Sign(x) = 0 \/ Sign(y) = 0 THEN NaN
    ELSE IF Sign(x) * Sign(y) > 0 THEN PosInf ELSE NegInf

FAdd(x, y) ==
    IF x.k = "nan" \/ y.k = "nan" THEN NaN
    ELSE IF IsFin(x) /\ IsFin(y) THEN Fin(x.n * y.d + y.n * x.d, x.d * y.d)
    ELSE IF IsFin(x) THEN y
    ELSE IF IsFin(y) THEN x
    ELSE IF x = y THEN x ELSE NaN

\* x / y for y # 0 (every caller tests the divisor first).
FDiv(x, y) ==
    IF x.k = "nan" \/ y.k = "nan" THEN NaN
    ELSE IF IsFin(x) /\ IsFin(y) THEN Fin(x.n * y.d, x.d * y.n)
    ELSE IF IsFin(x) THEN Int2F(0)
    ELSE IF IsFin(y) THEN (IF Sign(x) * Sign(y) > 0 THEN PosInf ELSE NegInf)
    ELSE NaN

\* x ** (1 / n) for n >= 1, as float_pow computes it.  A positive finite
\* base with n > 1 gives the n-th root, kept symbolic.
FRoot(x, n) ==
    IF x.k = "nan" THEN NaN
    ELSE IF n = 1 THEN x
    ELSE IF x.k = "inf" THEN PosInf
    ELSE IF x.n = 0 THEN Int2F(0)
    ELSE IF x.n < 0 THEN Complex
    ELSE IF x.n = 1 /\ x.d = 1 THEN x
    ELSE [k |-> "root", n |-> x.n, d |-> x.d, r |-> n]

(***************************************************************************)
(* Texts and their parsers.  A numeric text is a sequence of characters.   *)
(***************************************************************************)
Digits == {"0", "1", "2", "3", "4", "5", "6", "7", "8", "9"}

DigitVal(c) ==
    CASE c = "0" -> 0 [] c = "1" -> 1 [] c = "2" -> 2 [] c = "3" -> 3
      [] c = "4" -> 4 [] c = "5" -> 5 [] c = "6" -> 6 [] c = "7" -> 7
      [] c = "8" -> 8 [] c = "9" -> 9

RECURSIVE DigitsVal(_)
DigitsVal(t) ==
    IF t = <<>> THEN 0
    ELSE 10 * DigitsVal(SubSeq(t, 1, Len(t) - 1)) + DigitVal(t[Len(t)])

IsDigits(t) == Len(t) > 0 /\ \A i \in 1..Len(t) : t[i] \in Digits

Ok(v) == [ok |-> TRUE, v |-> v, exc |-> "none"]
Raise(e) == [ok |-> FALSE, v |-> None, exc |-> e]

\* The integer a decimal text denotes, or ValueError.
ParseIntText(t) ==
    IF IsDigits(t) THEN Ok(DigitsVal(t))
    ELSE IF Len(t) > 1 /\ t[1] = "-" /\ IsDigits(Tail(t)) THEN Ok(-DigitsVal(Tail(t)))
    ELSE IF Len(t) > 1 /\ t[1] = "+" /\ IsDigits(Tail(t)) THEN Ok(DigitsVal(Tail(t)))
    ELSE Raise("ValueError")

\* JSON values and query arguments: a number, a string, or nothing at all.
Num(i) == [t |-> "num", i |-> i, s |-> <<>>]
Str(s) == [t |-> "str", i |-> 0, s |-> s]
Absent == [t |-> "absent", i |-> 0, s |-> <<>>]

\* int(x)
PyInt(x) ==
    IF x.t = "num" THEN Ok(x.i)
    ELSE IF x.t = "str" THEN ParseIntText(x.s)
    ELSE Raise("TypeError")

\* float(x)
PyFloat(x) ==
    IF x.t = "num" THEN Ok(Int2F(x.i))
    ELSE IF x.t = "absent" THEN Raise("TypeError")
    ELSE IF x.s \in {<<"i", "n", "f">>, <<"+", "i", "n", "f">>} THEN Ok(PosInf)
    ELSE IF x.s = <<"-", "i", "n", "f">> THEN Ok(NegInf)
    ELSE IF x.s = <<"n", "a", "n">> THEN Ok(NaN)
    ELSE LET p == ParseIntText(x.s)
         IN  IF p.ok THEN Ok(Int2F(p.v)) ELSE Raise("ValueError")

(***************************************************************************)
(* datetime: <<proleptic Gregorian ordinal of the day, second of the day>>.*)
(***************************************************************************)
IsLeap(y) == y % 4 = 0 /\ (y % 100 # 0 \/ y % 400 = 0)

DaysInMonth(y, m) ==
    IF m = 2 THEN (IF IsLeap(y) THEN 29 ELSE 28)
    ELSE IF m \in {4, 6, 9, 11} THEN 30 ELSE 31

RECURSIVE DaysBeforeMonth(_, _)
DaysBeforeMonth(y, m) ==
    IF m = 1 THEN 0 ELSE DaysBeforeMonth(y, m - 1) + DaysInMonth(y, m - 1)

Ordinal(y, m, d) ==
    365 * (y - 1) + ((y - 1) \div 4) - ((y - 1) \div 100) + ((y - 1) \div 400)
    + DaysBeforeMonth(y, m) + d

\* A timestamp text that matches '%Y-%m-%d %H:%M:%S' is given by the six
\* numbers the format extracts; any other text is NoMatch.
TsText(Y, M, D, h, m, s) == [match |-> TRUE, Y |-> Y, M |-> M, D |-> D, h |-> h, m |-> m, s |-> s]
NoMatch == [match |-> FALSE, Y |-> 0, M |-> 0, D |-> 0, h |-> 0, m |-> 0, s |-> 0]

\* datetime.strptime(text, '%Y-%m-%d %H:%M:%S')
Strptime(x) ==
    IF x.t # "str" THEN Raise("TypeError")
    ELSE IF ~x.s.match THEN Raise("ValueError")
    ELSE LET f == x.s IN
         IF /\ f.Y \in 1..9999 /\ f.M \in 1..12
            /\ f.D \in 1..DaysInMonth(f.Y, f.M)
            /\ f.h \in 0..23 /\ f.m \in 0..59 /\ f.s \in 0..59
         THEN Ok(<<Ordinal(f.Y, f.M, f.D), 3600 * f.h + 60 * f.m + f.s>>)
         ELSE Raise("ValueError")

\* a >= b on datetimes
DtGe(a, b) == a[1] > b[1] \/ (a[1] = b[1] /\ a[2] >= b[2])

\* dt - timedelta(minutes=mins)
DtMinusMinutes(dt, mins) ==
    IF dt[2] >= 60 * mins THEN <<dt[1], dt[2] - 60 * mins>>
    ELSE <<dt[1] - 1, dt[2] + 86400 - 60 * mins>>

(***************************************************************************)
(* The registry and the Stock class.                                       *)
(***************************************************************************)
WindowMinutes == 5

Stock(symbol, stock_type, last_dividend, fixed_dividend, par_value) ==
    [symbol |-> symbol, stock_type |-> stock_type, last_dividend |-> last_dividend,
     fixed_dividend |-> fixed_dividend, par_value |-> par_value]

\* The module-level dict, in insertion order.
StockOrder == <<"TEA", "POP", "ALE", "GIN", "JOE">>

stocks ==
    [s \in {StockOrder[i] : i \in 1..Len(StockOrder)} |->
        CASE s = "TEA" -> Stock("TEA", "Common", Int2F(0), Int2F(0), Int2F(100))
          [] s = "POP" -> Stock("POP", "Common", Int2F(8), Int2F(0), Int2F(100))
          [] s = "ALE" -> Stock("ALE", "Common", Int2F(23), Int2F(0), Int2F(60))
          [] s = "GIN" -> Stock("GIN", "Preferred", Int2F(8), Fin(2, 100), Int2F(100))
          [] s = "JOE" -> Stock("JOE", "Common", Int2F(13), Int2F(0), Int2F(250))]

Registered == DOMAIN stocks

Trade(timestamp, quantity, indicator, price) ==
    [timestamp |-> timestamp, quantity |-> quantity, indicator |-> indicator, price |-> price]

\* Stock.record_trade with the trade put at the head of the list.
Stock_record_trade_at_head(trades, timestamp, quantity, indicator, price) ==
    <<Trade(timestamp, quantity, indicator, price)>> \o trades

\* Stock.record_trade writing over the last slot instead of growing the list.
Stock_record_trade_over_last(trades, timestamp, quantity, indicator, price) ==
    IF trades = <<>> THEN <<Trade(timestamp, quantity, indicator, price)>>
    ELSE [trades EXCEPT ![Len(trades)] = Trade(timestamp, quantity, indicator, price)]

\* Stock.record_trade: the new value of self.trades.
Stock_record_trade(trades, timestamp, quantity, indicator, price) ==
    Append(trades, Trade(timestamp, quantity, indicator, price))

\* The filter with > in place of >=.
InLast5Minutes_strict(trade, nowv) ==
    LET cut == DtMinusMinutes(nowv, WindowMinutes)
    IN  DtGe(trade.timestamp, cut) /\ trade.timestamp # cut

\* The filter of the list comprehension of get_trades_in_last_5_minutes.
InLast5Minutes(trade, nowv) ==
    DtGe(trade.timestamp, DtMinusMinutes(nowv, WindowMinutes))

\* Stock.get_trades_in_last_5_minutes, with datetime.now() = nowv.
RECURSIVE get_trades_in_last_5_minutes(_, _)
get_trades_in_last_5_minutes(trades, nowv) ==
    IF trades = <<>> THEN <<>>
    ELSE LET rest == get_trades_in_last_5_minutes(Tail(trades), nowv)
         IN  IF InLast5Minutes(Head(trades), nowv) THEN <<Head(trades)>> \o rest ELSE rest

(***************************************************************************)
(* The calculators.                                                        *)
(***************************************************************************)
calculate_dividend_yield(stock, price) ==
    IF FIsZero(price) THEN None
    ELSE IF stock.stock_type = "Common" THEN FDiv(stock.last_dividend, price)
    ELSE IF stock.stock_type = "Preferred"
         THEN FDiv(FMul(stock.fixed_dividend, stock.par_value), price)
    ELSE None

\* calculate_pe_ratio taking last_dividend for every stock type.
calculate_pe_ratio_last_dividend(stock, price) ==
    IF FIsZero(price) THEN None
    ELSE IF ~FIsZero(stock.last_dividend) THEN FDiv(price, stock.last_dividend) ELSE None

calculate_pe_ratio(stock, price) ==
    IF FIsZero(price) THEN None
    ELSE LET dividend == IF stock.stock_type = "Common" THEN stock.last_dividend
                         ELSE FMul(stock.fixed_dividend, stock.par_value)
         IN  IF ~FIsZero(dividend) THEN FDiv(price, dividend) ELSE None

\* sum(trade['price'] * trade['quantity'] for trade in trades), from the int 0.
RECURSIVE SumPriceQuantity(_)
SumPriceQuantity(trades) ==
    IF trades = <<>> THEN Int2F(0)
    ELSE LET t == trades[Len(trades)]
         IN  FAdd(SumPriceQuantity(SubSeq(trades, 1, Len(trades) - 1)),
                  FMul(t.price, Int2F(t.quantity)))

\* sum(trade['quantity'] for trade in trades)
RECURSIVE SumQuantity(_)
SumQuantity(trades) ==
    IF trades = <<>> THEN 0 ELSE Head(trades).quantity + SumQuantity(Tail(trades))

calculate_volume_weighted_stock_price(trades, nowv) ==
    LET window == get_trades_in_last_5_minutes(trades, nowv)
        total_traded_price_quantity == SumPriceQuantity(window)
        total_quantity == SumQuantity(window)
    IN  IF total_quantity # 0
        THEN FDiv(total_traded_price_quantity, Int2F(total_quantity))
        ELSE Int2F(0)

\* math.prod(values): the running product, from the int 1, left to right.
RECURSIVE Prod(_)
Prod(values) ==
    IF values = <<>> THEN Int2F(1)
    ELSE FMul(Prod(SubSeq(values, 1, Len(values) - 1)), values[Len(values)])

\* calculate_gbce_all_share_index over a list of stock symbols, each stock
\* holding the trades led[symbol].
calculate_gbce_all_share_index(stock_list, led, nowv) ==
    LET vwsp_values == [i \in 1..Len(stock_list) |->
                          calculate_volume_weighted_stock_price(led[stock_list[i]], nowv)]
        product == Prod(vwsp_values)
    IN  IF Len(vwsp_values) = 0 THEN Raise("ZeroDivisionError")
        ELSE Ok(FRoot(product, Len(vwsp_values)))

(***************************************************************************)
(* The Flask handlers.  A response records the handler, the symbol of the  *)
(* URL, the HTTP status, the error (the message of an error body, or the   *)
(* exception that left the handler uncaught: status 500), the value of a   *)
(* success body and the parsed argument the handler worked on.             *)
(***************************************************************************)
Response(op, symbol, status, error, value, arg) ==
    [op |-> op, symbol |-> symbol, status |-> status, error |-> error,
     value |-> value, arg |-> arg]

NoResp == Response("none", "", 0, "none", None, None)

Uncaught(op, symbol, exc) == Response(op, symbol, 500, exc, None, None)

\* jsonify of a number: a complex is not JSON serializable.
Jsonify(op, symbol, result, arg) ==
    IF result.k = "complex" THEN Uncaught(op, symbol, "TypeError")
    ELSE Response(op, symbol, 200, "none", result, arg)

get_dividend_yield(symbol, price_arg) ==
    LET price == PyFloat(price_arg) IN
    IF ~price.ok THEN Uncaught("get_dividend_yield", symbol, price.exc)
    ELSE IF symbol \in Registered
    THEN LET result == calculate_dividend_yield(stocks[symbol], price.v)
         IN  IF result = None
             THEN Response("get_dividend_yield", symbol, 400,
                           "Price must be greater than 0", None, price.v)
             ELSE Jsonify("get_dividend_yield", symbol, result, price.v)
    ELSE Response("get_dividend_yield", symbol, 404, "Stock not found", None, price.v)

get_pe_ratio(symbol, price_arg) ==
    LET price == PyFloat(price_arg) IN
    IF ~price.ok THEN Uncaught("get_pe_ratio", symbol, price.exc)
    ELSE IF symbol \in Registered
    THEN LET result == calculate_pe_ratio(stocks[symbol], price.v)
         IN  IF result = None
             THEN Response("get_pe_ratio", symbol, 400,
                           "Price and dividend must be greater than 0", None, price.v)
             ELSE Jsonify("get_pe_ratio", symbol, result, price.v)
    ELSE Response("get_pe_ratio", symbol, 404, "Stock not found", None, price.v)

\* The JSON body of a trade: each key holds a JSON value or is missing.
Body(timestamp, quantity, indicator, price) ==
    [timestamp |-> timestamp, quantity |-> quantity, indicator |-> indicator, price |-> price]

\* data[key]
Item(data, v) == IF v.t = "absent" THEN Raise("KeyError") ELSE Ok(v)

\* The try block of record_trade: the four fields in the order the code
\* reads them; the first exception ends it.
ParseTrade(data) ==
    LET ts == Item(data, data.timestamp)
        timestamp == IF ts.ok THEN Strptime(ts.v) ELSE ts
        qy == Item(data, data.quantity)
        quantity == IF qy.ok THEN PyInt(qy.v) ELSE qy
        indicator == Item(data, data.indicator)
        pr == Item(data, data.price)
        price == IF pr.ok THEN PyFloat(pr.v) ELSE pr
    IN  IF ~timestamp.ok THEN timestamp
        ELSE IF ~quantity.ok THEN quantity
        ELSE IF ~indicator.ok THEN indicator
        ELSE IF ~price.ok THEN price
        ELSE Ok(Trade(timestamp.v, quantity.v, indicator.v.s, price.v))

\* record_trade: the response and the trades of every stock after the call.
record_trade(symbol, data, led) ==
    IF symbol \in Registered
    THEN LET parsed == ParseTrade(data) IN
         IF ~parsed.ok
         THEN IF parsed.exc \in {"ValueError", "KeyError"}
              THEN [resp |-> Response("record_trade", symbol, 400, parsed.exc, None, None),
                    ledger |-> led]
              ELSE [resp |-> Uncaught("record_trade", symbol, parsed.exc), ledger |-> led]
         ELSE LET t == parsed.v IN
              [resp |-> Response("record_trade", symbol, 200, "none",
                                 "Trade recorded successfully", t),
               ledger |-> [led EXCEPT ![symbol] =
                             Stock_record_trade(@, t.timestamp, t.quantity, t.indicator, t.price)]]
    ELSE [resp |-> Response("record_trade", symbol, 404, "Stock not found", None, None),
          ledger |-> led]

get_volume_weighted_stock_price(symbol, led, nowv) ==
    IF symbol \in Registered
    THEN Jsonify("get_volume_weighted_stock_price", symbol,
                 calculate_volume_weighted_stock_price(led[symbol], nowv), None)
    ELSE Response("get_volume_weighted_stock_price", symbol, 404, "Stock not found", None, None)

get_gbce_all_share_index(led, nowv) ==
    LET result == calculate_gbce_all_share_index(StockOrder, led, nowv) IN
    IF ~result.ok THEN Uncaught("get_gbce_all_share_index", "", result.exc)
    ELSE Jsonify("get_gbce_all_share_index", "", result.v, None)

(***************************************************************************)
(* The requests the model sends.                                           *)
(***************************************************************************)
AllSymbols == Registered \cup {"XYZ"}
RequestSymbols == {"TEA", "POP", "GIN", "XYZ"}
TradeSymbols == {"TEA", "POP", "XYZ"}

PriceArgs ==
    {Str(<<"1", "0", "0">>), Str(<<"4">>), Str(<<"0">>), Str(<<"-", "1", "0">>),
     Str(<<"a", "b", "c">>), Absent}

MetricPriceArgs ==
    PriceArgs \cup {Str(<<"1">>), Str(<<"-", "1">>), Str(<<"i", "n", "f">>), Str(<<"n", "a", "n">>)}

T0 == Str(TsText(2024, 1, 1, 0, 0, 0))
T1 == Str(TsText(2024, 1, 1, 0, 0, 1))

\* Well-formed bodies of positive quantity and price.
PlainBodies ==
    {Body(ts, l[1], l[2], l[3]) :
        ts \in {T0, T1},
        l \in {<<Num(2), Str("buy"), Num(3)>>,
               <<Str(<<"1">>), Str("sell"), Str(<<"1">>)>>}}

\* Bodies the try block rejects.
BadBodies ==
    {Body(Str(TsText(2024, 2, 30, 0, 0, 0)), Num(2), Str("buy"), Num(3)),
     Body(Str(NoMatch), Num(2), Str("buy"), Num(3)),
     Body(T1, Str(<<"x">>), Str("buy"), Num(3)),
     Body(T1, Num(2), Str("buy"), Absent),
     Body(Num(0), Num(2), Str("buy"), Num(3))}

TradeBodies ==
    PlainBodies \cup BadBodies \cup
    {Body(ts, l[1], l[2], l[3]) :
        ts \in {T0, T1},
        l \in {<<Num(0), Str("buy"), Num(3)>>,
               <<Num(2), Str("sell"), Num(-1)>>,
               <<Num(2), Str("buy"), Str(<<"i", "n", "f">>)>>}}

\* The lists of stocks the index is computed over by a direct call.
StockLists == {<<>>, <<"TEA">>, <<"TEA", "POP">>, StockOrder}

(***************************************************************************)
(* The state machine: one request at a time.                               *)
(***************************************************************************)
Midnight == <<Ordinal(2024, 1, 1), 0>>
StartTime == <<Midnight[1], 60 * WindowMinutes>>

RECURSIVE SumLen(_, _)
SumLen(led, i) == IF i = 0 THEN 0 ELSE Len(led[StockOrder[i]]) + SumLen(led, i - 1)

TotalTrades == SumLen(ledger, Len(StockOrder))

Idle == <<>>

Init ==
    /\ ledger = [s \in Registered |-> <<>>]
    /\ now = StartTime
    /\ resp = NoResp
    /\ thr = Idle

\* Time passes.
Tick ==
    /\ now[2] < StartTime[2] + MaxTicks
    /\ now' = <<now[1], now[2] + 1>>
    /\ resp' = NoResp
    /\ UNCHANGED <<ledger, thr>>

GetDividendYield(symbols, price_args) ==
    \E symbol \in symbols, price_arg \in price_args :
        /\ resp' = get_dividend_yield(symbol, price_arg)
        /\ UNCHANGED <<ledger, now, thr>>

GetPeRatio(symbols, price_args) ==
    \E symbol \in symbols, price_arg \in price_args :
        /\ resp' = get_pe_ratio(symbol, price_arg)
        /\ UNCHANGED <<ledger, now, thr>>

RecordTradeOf(symbol, data) ==
    /\ TotalTrades < MaxTrades
    /\ LET r == record_trade(symbol, data, ledger)
       IN  ledger' = r.ledger /\ resp' = r.resp
    /\ UNCHANGED <<now, thr>>

RecordTrade(bodies) ==
    \E symbol \in TradeSymbols, data \in bodies : RecordTradeOf(symbol, data)

GetVolumeWeightedStockPrice(symbols) ==
    \E symbol \in symbols :
        /\ resp' = get_volume_weighted_stock_price(symbol, ledger, now)
        /\ UNCHANGED <<ledger, now, thr>>

GetGbceAllShareIndex ==
    /\ resp' = get_gbce_all_share_index(ledger, now)
    /\ UNCHANGED <<ledger, now, thr>>

\* Direct calls, as the tests make them.
CallTradesInLast5Minutes ==
    \E symbol \in Registered \cap TradeSymbols :
        /\ resp' = Response("get_trades_in_last_5_minutes", symbol, 0, "none",
                            get_trades_in_last_5_minutes(ledger[symbol], now), None)
        /\ UNCHANGED <<ledger, now, thr>>

CallGbceAllShareIndex ==
    \E stock_list \in StockLists :
        /\ LET result == calculate_gbce_all_share_index(stock_list, ledger, now)
           IN  resp' = Response("calculate_gbce_all_share_index", "", 0, result.exc,
                                result.v, Len(stock_list))
        /\ UNCHANGED <<ledger, now, thr>>

\* Every operation, every request of the model.
Next ==
    \/ Tick
    \/ GetDividendYield(RequestSymbols, PriceArgs)
    \/ GetPeRatio(RequestSymbols, PriceArgs)
    \/ RecordTrade(TradeBodies)
    \/ GetVolumeWeightedStockPrice(RequestSymbols)
    \/ GetGbceAllShareIndex
    \/ CallTradesInLast5Minutes
    \/ CallGbceAllShareIndex

Spec == Init /\ [][Next]_vars

\* Every operation, over the well-formed and the rejected trades.
NextLedger ==
    \/ Tick
    \/ GetDividendYield({"GIN", "XYZ"}, {Str(<<"4">>), Str(<<"0">>)})
    \/ GetPeRatio({"GIN", "XYZ"}, {Str(<<"4">>), Str(<<"0">>)})
    \/ RecordTrade(PlainBodies \cup BadBodies)
    \/ GetVolumeWeightedStockPrice(TradeSymbols)
    \/ GetGbceAllShareIndex
    \/ CallTradesInLast5Minutes
    \/ CallGbceAllShareIndex

SpecLedger == Init /\ [][NextLedger]_vars

\* The two calculators that read no trade, over every symbol.
NextMetrics ==
    \/ GetDividendYield(AllSymbols, MetricPriceArgs)
    \/ GetPeRatio(AllSymbols, MetricPriceArgs)

SpecMetrics == Init /\ [][NextMetrics]_vars

(***************************************************************************)
(* Concurrent requests on one stock.  Flask serves each request on its own *)
(* thread; a thread runs record_trade or get_trades_in_last_5_minutes.     *)
(* The steps are those between which another thread can run: the trade     *)
(* dict is built on the thread's own stack, list.append is one atomic      *)
(* call, and the list comprehension reads the list one index at a time.    *)
(***************************************************************************)
ConcSymbol == "POP"

ConcBodies ==
    {Body(T0, Num(2), Str("buy"), Num(3)),
     Body(T1, Str(<<"1">>), Str("sell"), Str(<<"1">>)),
     Body(T1, Str(<<"x">>), Str("buy"), Num(3))}

Threads == 1..NumThreads

NoTrade == Trade(Midnight, 0, "", None)

Thread(pc, role, data, trade, status, nowv, i, result) ==
    [pc |-> pc, role |-> role, data |-> data, trade |-> trade, status |-> status,
     nowv |-> nowv, i |-> i, result |-> result]

NoBody == Body(Absent, Absent, Absent, Absent)

InitConc ==
    /\ ledger = [s \in Registered |-> <<>>]
    /\ now = StartTime
    /\ resp = NoResp
    /\ thr = [t \in Threads |-> Thread("idle", "none", NoBody, NoTrade, 0, Midnight, 0, <<>>)]

\* A POST /record_trade/POP arrives: data = request.get_json().
BeginRecord(t) ==
    /\ thr[t].pc = "idle"
    /\ \E data \in ConcBodies :
          thr' = [thr EXCEPT ![t] = Thread("parse", "record", data, NoTrade, 0, Midnight, 0, <<>>)]
    /\ UNCHANGED <<ledger, now, resp>>

\* The try block: the fields are parsed into locals.
ParseStep(t) ==
    /\ thr[t].pc = "parse"
    /\ LET parsed == ParseTrade(thr[t].data) IN
       thr' = IF parsed.ok
              THEN [thr EXCEPT ![t].pc = "append", ![t].trade = parsed.v]
              ELSE [thr EXCEPT ![t].pc = "done", ![t].status = 400]
    /\ UNCHANGED <<ledger, now, resp>>

\* Stock.record_trade: self.trades.append({...}).
AppendStep(t) ==
    /\ thr[t].pc = "append"
    /\ LET tr == thr[t].trade IN
       ledger' = [ledger EXCEPT ![ConcSymbol] =
                    Stock_record_trade(@, tr.timestamp, tr.quantity, tr.indicator, tr.price)]
    /\ thr' = [thr EXCEPT ![t].pc = "done", ![t].status = 200]
    /\ UNCHANGED <<now, resp>>

\* get_trades_in_last_5_minutes starts: now = datetime.now().
BeginRead(t) ==
    /\ thr[t].pc = "idle"
    /\ thr' = [thr EXCEPT ![t] = Thread("iter", "read", NoBody, NoTrade, 0, now, 0, <<>>)]
    /\ UNCHANGED <<ledger, now, resp>>

\* One turn of the list comprehension: the list iterator yields the element
\* at its index while the index is below the list's current length.
IterStep(t) ==
    /\ thr[t].pc = "iter"
    /\ LET trades == ledger[ConcSymbol]
           i == thr[t].i
       IN  thr' = IF i < Len(trades)
                  THEN [thr EXCEPT ![t].i = i + 1,
                                   ![t].result = IF InLast5Minutes(trades[i + 1], thr[t].nowv)
                                                 THEN Append(@, trades[i + 1]) ELSE @]
                  ELSE [thr EXCEPT ![t].pc = "done", ![t].status = 200]
    /\ UNCHANGED <<ledger, now, resp>>

TickConc ==
    /\ now[2] < StartTime[2] + MaxTicks
    /\ now' = <<now[1], now[2] + 1>>
    /\ UNCHANGED <<ledger, resp, thr>>

NextConc ==
    \/ TickConc
    \/ \E t \in Threads : BeginRecord(t)
    \/ \E t \in Threads : ParseStep(t)
    \/ \E t \in Threads : AppendStep(t)
    \/ \E t \in Threads : BeginRead(t)
    \/ \E t \in Threads : IterStep(t)

SpecConc == InitConc /\ [][NextConc]_vars

(***************************************************************************)
(* Properties.                                                             *)
(***************************************************************************)
SymbolOps ==
    {"get_dividend_yield", "get_pe_ratio", "record_trade", "get_volume_weighted_stock_price"}

\* Seconds from the midnight the model's clock starts on.
Secs(dt) == (dt[1] - Midnight[1]) * 86400 + dt[2]

\* The indexes of the trades stamped at or after ref - dur seconds.
WindowIdx(trades, ref, dur) ==
    {i \in 1..Len(trades) : Secs(trades[i].timestamp) >= Secs(ref) - dur}

\* The k-th smallest element of a set of indexes.
Kth(idx, k) == CHOOSE i \in idx : Cardinality({j \in idx : j <= i}) = k

WindowOf(trades, ref, dur) ==
    LET idx == WindowIdx(trades, ref, dur)
    IN  [k \in 1..Cardinality(idx) |-> trades[Kth(idx, k)]]

\* The trade a body submits.
Submitted(data) ==
    Trade(Strptime(data.timestamp).v, PyInt(data.quantity).v, data.indicator.s,
          PyFloat(data.price).v)

\* C1: a RecordTrade whose quantity is <= 0 or whose price is < 0 is answered
\* 400 and leaves every stock's trades as they were.
C1_InvalidTradeRejected ==
    [][\A symbol \in TradeSymbols \cap Registered, data \in TradeBodies :
          (/\ RecordTradeOf(symbol, data)
           /\ ParseTrade(data).ok
           /\ (ParseTrade(data).v.quantity <= 0 \/ FNeg(ParseTrade(data).v.price)))
          => (resp'.status = 400 /\ ledger' = ledger)]_vars

\* C2: a record_trade answered 200 appends to the stock of its URL exactly
\* the submitted trade and changes no other list; every other step leaves
\* every list as it was.
C2_LedgerAppendOnly ==
    [][IF resp'.op = "record_trade" /\ resp'.status = 200
       THEN \A symbol \in TradeSymbols, data \in TradeBodies :
               RecordTradeOf(symbol, data)
               => (/\ symbol \in Registered
                   /\ ledger'[symbol] = Append(ledger[symbol], Submitted(data))
                   /\ \A other \in Registered \ {symbol} : ledger'[other] = ledger[other])
       ELSE ledger' = ledger]_vars

\* C2 witness: a second, different trade has just been recorded after a first.
C2_Witness ==
    /\ resp.op = "record_trade" /\ resp.status = 200 /\ resp.symbol = "POP"
    /\ Len(ledger["POP"]) = 2
    /\ ledger["POP"][1] # ledger["POP"][2]
    /\ ledger["POP"][2] = resp.arg

\* C3: for a registered stock and a price <= 0, the dividend yield and the
\* P/E ratio are both answered 400, never with a number.
C3_NonPositivePriceUndefined ==
    (/\ resp.op \in {"get_dividend_yield", "get_pe_ratio"}
     /\ resp.symbol \in Registered
     /\ (FIsZero(resp.arg) \/ FNeg(resp.arg)))
    => resp.status = 400

\* C4: a request for a symbol that is not registered is answered 404 by the
\* four operations that take a symbol, whatever its other arguments, and
\* leaves every stock's trades as they were.
C4_UnknownSymbolNotFound ==
    [][(resp'.op \in SymbolOps /\ resp'.symbol \notin Registered)
       => (resp'.status = 404 /\ ledger' = ledger)]_vars

\* C5: the window read returns, in list order, exactly the trades stamped at
\* or after now - 5 minutes.
C5_WindowInclusive ==
    resp.op = "get_trades_in_last_5_minutes"
    => LET trades == ledger[resp.symbol]
           idx == WindowIdx(trades, now, 60 * WindowMinutes)
       IN  /\ Len(resp.value) = Cardinality(idx)
           /\ \A k \in 1..Len(resp.value) : resp.value[k] = trades[Kth(idx, k)]

\* C5 witness: of two trades, the one stamped exactly now - 5 minutes is
\* returned and the one stamped a second earlier is not.
C5_Witness ==
    /\ resp.op = "get_trades_in_last_5_minutes"
    /\ Len(ledger[resp.symbol]) = 2
    /\ \E i, j \in 1..2 :
          /\ Secs(ledger[resp.symbol][i].timestamp) = Secs(now) - 60 * WindowMinutes
          /\ Secs(ledger[resp.symbol][j].timestamp) = Secs(now) - 60 * WindowMinutes - 1
          /\ resp.value = <<ledger[resp.symbol][i]>>

\* C6: the volume-weighted price is sum(price * quantity) / sum(quantity)
\* over the window with that total quantity > 0, or it is 0 with no trade in
\* the window: one of the two, for every list of recorded trades.
C6_VwspRatioOrEmpty ==
    (resp.op = "get_volume_weighted_stock_price" /\ resp.symbol \in Registered)
    => LET w == WindowOf(ledger[resp.symbol], now, 60 * WindowMinutes)
           q == SumQuantity(w)
       IN  \/ /\ q > 0
              /\ resp.status = 200
              /\ FMul(resp.value, Int2F(q)) = SumPriceQuantity(w)
           \/ /\ w = <<>>
              /\ resp.status = 200
              /\ resp.value = Int2F(0)

\* C7: when the volume-weighted price of some registered stock is 0, the
\* index is 0.
C7_ZeroPriceZeroIndex ==
    (/\ resp.op = "get_gbce_all_share_index"
     /\ \E s \in Registered :
           calculate_volume_weighted_stock_price(ledger[s], now) = Int2F(0))
    => (resp.status = 200 /\ resp.value = Int2F(0))

\* C8: the index over no stock at all is an error value, not an exception.
C8_EmptyIndexIsErrorValue ==
    (resp.op = "calculate_gbce_all_share_index" /\ resp.arg = 0)
    => (resp.error = "none" /\ ~IsNum(resp.value))

\* The number of times v occurs in a list.
Count(list, v) == Cardinality({i \in 1..Len(list) : list[i] = v})

\* C9: under every interleaving, the list holds each recorded trade once
\* per record that completed, nothing else, and a reader has collected
\* exactly the trades in its window among those it has passed, each equal to
\* the trade a completed record submitted.
C9_NoLostOrTornTrade ==
    LET trades == ledger[ConcSymbol]
        recorded == {t \in Threads : thr[t].role = "record" /\ thr[t].status = 200}
    IN  /\ Len(trades) = Cardinality(recorded)
        /\ \A t \in recorded :
              Count(trades, Submitted(thr[t].data))
                 = Cardinality({u \in recorded : Submitted(thr[u].data) = Submitted(thr[t].data)})
        /\ \A t \in Threads :
              thr[t].role = "read"
              => /\ thr[t].i <= Len(trades)
                 /\ thr[t].result = WindowOf(SubSeq(trades, 1, thr[t].i), thr[t].nowv,
                                             60 * WindowMinutes)
                 /\ \A k \in 1..Len(thr[t].result) :
                       \E u \in recorded : thr[t].result[k] = Submitted(thr[u].data)

\* C9 witness: two records and a read have all completed, and the read,
\* overtaken by the second record, returned the first trade alone.
C9_Witness ==
    /\ \A t \in Threads : thr[t].pc = "done"
    /\ Len(ledger[ConcSymbol]) = 2
    /\ \E t \in Threads :
          thr[t].role = "read" /\ thr[t].result = <<ledger[ConcSymbol][1]>>
          /\ InLast5Minutes(ledger[ConcSymbol][2], thr[t].nowv)

\* The dividend the P/E ratio divides by.
DividendBasis(stock) ==
    IF stock.stock_type = "Common" THEN stock.last_dividend
    ELSE FMul(stock.fixed_dividend, stock.par_value)

\* C10: for a registered stock and a price > 0, the P/E ratio is answered 400
\* when the dividend basis is 0 and is otherwise the number that, multiplied
\* by the dividend basis, gives the price.
C10_PeRatio ==
    (resp.op = "get_pe_ratio" /\ resp.symbol \in Registered /\ FPos(resp.arg))
    => LET basis == DividendBasis(stocks[resp.symbol])
       IN  IF FIsZero(basis) THEN resp.status = 400
           ELSE /\ resp.status = 200
                /\ IsNum(resp.value)
                /\ FMul(resp.value, basis) = resp.arg

\* C10 witness: the P/E ratio of the preferred stock at price 100 is 50.
C10_Witness ==
    /\ resp.op = "get_pe_ratio" /\ resp.symbol = "GIN" /\ resp.status = 200
    /\ resp.arg = Int2F(100)
    /\ resp.value = Int2F(50)

====
